---- MODULE Spec2Model ----
(***************************************************************************)
(* CareerSense AI (src/app.py): a Streamlit script.  Every user            *)
(* interaction re-runs the script top to bottom: the credential is read,   *)
(* the salary table is loaded, the sidebar radio selects a page and the    *)
(* page's widgets and handlers are evaluated.  A button is True only in    *)
(* the run its click triggered; a widget that a run does not render loses  *)
(* its value.  Strings are modelled as sequences of one-character strings. *)
(***************************************************************************)
EXTENDS Integers, Sequences, FiniteSets

(***************************************************************************)
(* Bounds of the model.                                                    *)
(***************************************************************************)
MaxRecords == 3
MaxSkillsText == 2
MaxInterestsText == 2

(***************************************************************************)
(* Program constants: salary_lpa = salary_in_usd * 83 / 100000.            *)
(***************************************************************************)
Rate == 83
Divisor == 100000
SkillWeight == 2
InterestWeight == 1
Digits == 2

(***************************************************************************)
(* Python string primitives.                                               *)
(***************************************************************************)
Lower(c) == IF c = "A" THEN "a" ELSE IF c = "B" THEN "b" ELSE c

StrLower(s) == [i \in 1..Len(s) |-> Lower(s[i])]

IsSpace(c) == c = " "

RECURSIVE LStrip(_)
LStrip(s) == IF s # <<>> /\ IsSpace(Head(s)) THEN LStrip(Tail(s)) ELSE s

RECURSIVE RStrip(_)
RStrip(s) ==
    IF s # <<>> /\ IsSpace(s[Len(s)]) THEN RStrip(SubSeq(s, 1, Len(s) - 1)) ELSE s

StrStrip(s) == RStrip(LStrip(s))

\* s.split(sep): the pieces between the separators; always at least one piece.
RECURSIVE SplitFrom(_, _, _)
SplitFrom(s, sep, cur) ==
    IF s = <<>> THEN <<cur>>
    ELSE IF Head(s) = sep THEN <<cur>> \o SplitFrom(Tail(s), sep, <<>>)
    ELSE SplitFrom(Tail(s), sep, Append(cur, Head(s)))

StrSplit(s, sep) == SplitFrom(s, sep, <<>>)

\* p in t
StrIn(p, t) ==
    \E i \in 0..(Len(t) - Len(p)) : SubSeq(t, i + 1, i + Len(p)) = p

\* the comprehension with the empty entries dropped
ParseListNonEmpty(text) ==
    LET parts == StrSplit(text, ",")
    IN  SelectSeq([i \in 1..Len(parts) |-> StrLower(StrStrip(parts[i]))],
                  LAMBDA e : e # <<>>)

\* [x.strip().lower() for x in text.split(",")]
ParseList(text) ==
    LET parts == StrSplit(text, ",")
    IN  [i \in 1..Len(parts) |-> StrLower(StrStrip(parts[i]))]

(***************************************************************************)
(* The dataset file and the loaded table.                                  *)
(***************************************************************************)
\* A salary_lpa value is the exact rational num/den.
Rat(n, d) == [num |-> n, den |-> d]

RatLess(a, b) ==
    IF a.den = b.den THEN a.num < b.num ELSE a.num * b.den < b.num * a.den

\* job_title cells as they stand in the file, before .str.strip()
RawTitles == { <<"A", "b">>, <<"A", "b", " ">>, <<"B">> }

SalariesUsd == { 1000, 1300 }

CsvRows == [job_title : RawTitles, salary_in_usd : SalariesUsd]

RECURSIVE SeqsUpTo(_, _)
SeqsUpTo(S, n) ==
    IF n = 0 THEN { <<>> }
    ELSE LET shorter == SeqsUpTo(S, n - 1)
         IN  shorter \cup { Append(q, x) : q \in { r \in shorter : Len(r) = n - 1 }, x \in S }

CsvFiles == SeqsUpTo(CsvRows, MaxRecords)

\* salary_df after lines 33-35
LoadData(file) ==
    [i \in 1..Len(file) |->
        [job_title     |-> StrStrip(file[i].job_title),
         salary_in_usd |-> file[i].salary_in_usd,
         salary_lpa    |-> Rat(file[i].salary_in_usd * Rate, Divisor)]]

\* salary_df["job_title"].unique(): distinct values in order of first appearance
RECURSIVE UniqueFrom(_, _)
UniqueFrom(col, seen) ==
    IF col = <<>> THEN seen
    ELSE IF \E j \in 1..Len(seen) : seen[j] = Head(col)
         THEN UniqueFrom(Tail(col), seen)
         ELSE UniqueFrom(Tail(col), Append(seen, Head(col)))

UniqueTitles(df) == UniqueFrom([i \in 1..Len(df) |-> df[i].job_title], <<>>)

(***************************************************************************)
(* Scoring (lines 83-100).                                                 *)
(***************************************************************************)
\* for x in entries: if x in title_lower: score += weight
RECURSIVE AddMatches(_, _, _, _)
AddMatches(entries, title_lower, weight, score) ==
    IF entries = <<>> THEN score
    ELSE AddMatches(Tail(entries), title_lower, weight,
                    IF StrIn(Head(entries), title_lower) THEN score + weight ELSE score)

\* an entry counts only when it is a whole word of the title
RECURSIVE AddWordMatches(_, _, _, _)
AddWordMatches(entries, title_lower, weight, score) ==
    LET words == StrSplit(title_lower, " ")
    IN  IF entries = <<>> THEN score
        ELSE AddWordMatches(Tail(entries), title_lower, weight,
                 IF \E k \in 1..Len(words) : words[k] = Head(entries)
                 THEN score + weight ELSE score)

TitleScoreByWord(title, user_skills, user_interests) ==
    LET title_lower == StrLower(title)
        after_skills == AddWordMatches(user_skills, title_lower, SkillWeight, 0)
    IN  AddWordMatches(user_interests, title_lower, InterestWeight, after_skills)

TitleScore(title, user_skills, user_interests) ==
    LET title_lower == StrLower(title)
        after_skills == AddMatches(user_skills, title_lower, SkillWeight, 0)
    IN  AddMatches(user_interests, title_lower, InterestWeight, after_skills)

\* d[key] = value on an insertion-ordered dict kept as a sequence of items
DictSet(d, key, value) ==
    IF \E j \in 1..Len(d) : d[j].title = key
    THEN [j \in 1..Len(d) |-> IF d[j].title = key THEN [title |-> key, score |-> value] ELSE d[j]]
    ELSE Append(d, [title |-> key, score |-> value])

RECURSIVE ScoreLoop(_, _, _, _)
ScoreLoop(titles, user_skills, user_interests, career_scores) ==
    IF titles = <<>> THEN career_scores
    ELSE ScoreLoop(Tail(titles), user_skills, user_interests,
                   DictSet(career_scores, Head(titles),
                           TitleScore(Head(titles), user_skills, user_interests)))

CareerScores(df, user_skills, user_interests) ==
    ScoreLoop(UniqueTitles(df), user_skills, user_interests, <<>>)

\* sorted(items, key=score, reverse=True): stable, equal scores keep their order
RECURSIVE InsertDesc(_, _)
InsertDesc(sorted, x) ==
    IF sorted = <<>> THEN <<x>>
    ELSE IF Head(sorted).score >= x.score
         THEN <<Head(sorted)>> \o InsertDesc(Tail(sorted), x)
         ELSE <<x>> \o sorted

RECURSIVE StableSortDesc(_)
StableSortDesc(items) ==
    IF items = <<>> THEN <<>>
    ELSE InsertDesc(StableSortDesc(SubSeq(items, 1, Len(items) - 1)), items[Len(items)])

Reverse(s) == [i \in 1..Len(s) |-> s[Len(s) + 1 - i]]

\* an ascending sort reversed: equal scores come out in reverse order
SortedCareersReversedTies(career_scores) ==
    StableSortDesc(Reverse(career_scores))

SortedCareers(career_scores) == StableSortDesc(career_scores)

(***************************************************************************)
(* Aggregation (lines 104-110 and 170-174).                                *)
(***************************************************************************)
Pow10(n) == IF n = 0 THEN 1 ELSE IF n = 1 THEN 10 ELSE 100

NaN == [isnan |-> TRUE, hundredths |-> 0]

Num(h) == [isnan |-> FALSE, hundredths |-> h]

\* round(x, 2) of the rational x, as a count of hundredths; half to even
Round2(x) ==
    LET n == x.num * Pow10(Digits)
        q == n \div x.den
        r == n % x.den
    IN  IF 2 * r < x.den THEN Num(q)
        ELSE IF 2 * r > x.den THEN Num(q + 1)
        ELSE IF q % 2 = 0 THEN Num(q) ELSE Num(q + 1)

\* round(nan, 2) is nan
RoundStat(x) == IF x.isnan THEN NaN ELSE Round2(x.value)

Value(x) == [isnan |-> FALSE, value |-> x]

NaNValue == [isnan |-> TRUE, value |-> Rat(0, 1)]

\* salary_df[salary_df["job_title"] == title]; a selection of None equals no title
None == <<>>

Some(t) == <<t>>

FilterByTitle(df, selected) ==
    IF selected = None THEN <<>>
    ELSE SelectSeq(df, LAMBDA row : row.job_title = selected[1])

RECURSIVE SumNum(_)
SumNum(rows) == IF rows = <<>> THEN 0 ELSE Head(rows).salary_lpa.num + SumNum(Tail(rows))

\* Series.mean(): nan on an empty series
SeriesMean(rows) ==
    IF rows = <<>> THEN NaNValue ELSE Value(Rat(SumNum(rows), Divisor * Len(rows)))

RECURSIVE SeriesMin(_)
SeriesMin(rows) ==
    IF rows = <<>> THEN NaNValue
    ELSE LET rest == SeriesMin(Tail(rows))
             x == Head(rows).salary_lpa
         IN  IF rest.isnan \/ RatLess(x, rest.value) THEN Value(x) ELSE rest

RECURSIVE SeriesMax(_)
SeriesMax(rows) ==
    IF rows = <<>> THEN NaNValue
    ELSE LET rest == SeriesMax(Tail(rows))
             x == Head(rows).salary_lpa
         IN  IF rest.isnan \/ RatLess(rest.value, x) THEN Value(x) ELSE rest

\* salary_df["job_title"].value_counts()[title]
ValueCount(df, title) == Len(SelectSeq(df, LAMBDA row : row.job_title = title))

(***************************************************************************)
(* State.                                                                  *)
(*   api_key         st.secrets.get("GEMINI_API_KEY") is truthy            *)
(*   csv             global_tech_salary.csv                                *)
(*   salary_df       the table the last run loaded                         *)
(*   menu            the sidebar radio                                     *)
(*   skills_input, interests_input, career1, career2   widget values       *)
(*   clicked         the button whose click triggered the last run         *)
(*   display         the elements the last run has rendered, in order      *)
(*   run             the script run: its position and its local variables  *)
(*   request         the generate_content call to the remote service       *)
(*   report          career_report.pdf                                     *)
(***************************************************************************)
VARIABLES api_key, csv, salary_df, menu, skills_input, interests_input,
          career1, career2, clicked, display, run, request, report

vars == <<api_key, csv, salary_df, menu, skills_input, interests_input,
          career1, career2, clicked, display, run, request, report>>

Pages == { "Home", "Career Analysis", "Compare Careers", "About" }

Elem(kind, label, data) == [kind |-> kind, label |-> label, data |-> data]

Shows(kind, label) == \E i \in 1..Len(display) : display[i].kind = kind /\ display[i].label = label

ShowsKind(kind) == \E i \in 1..Len(display) : display[i].kind = kind

\* lines 24-28: the notice of a missing credential
Header(key) ==
    IF key THEN <<>> ELSE << Elem("error", "Gemini API Key not configured.", <<>>) >>

NoStat == NaN

IdleRun ==
    [pc |-> "idle", user_skills |-> <<>>, user_interests |-> <<>>, career_scores |-> <<>>,
     top_career |-> None, avg_salary |-> NoStat, min_salary |-> NoStat,
     max_salary |-> NoStat, demand_count |-> 0, explanation |-> "", error |-> ""]

NoRequest == [state |-> "none", skills |-> <<>>, interests |-> <<>>, career |-> None]

NoReport == [written |-> FALSE, title |-> None, avg_salary |-> NoStat,
             demand_count |-> 0, explanation |-> ""]

\* lines 137-150: the document built from the run's locals
BuildReport(r) ==
    [written |-> TRUE, title |-> r.top_career, avg_salary |-> r.avg_salary,
     demand_count |-> r.demand_count, explanation |-> r.explanation]

\* lines 73-78
AnalysisForm(sk, it) ==
    << Elem("header", "Analyze Your Career Path", <<>>),
       Elem("text_area", "Your Skills (comma separated)", sk),
       Elem("text_area", "Your Interests (comma separated)", it),
       Elem("button", "Analyze Now", <<>>) >>

\* lines 102-118 without the chart: the chart is left to a later step
ResultsShownWithoutChart(r, career_data) ==
    << Elem("success", "Recommended Career", r.top_career),
       Elem("metric", "Avg Salary (LPA)", r.avg_salary),
       Elem("metric", "Role Frequency", r.demand_count),
       Elem("metric", "Salary Range", <<r.min_salary, r.max_salary>>) >>

\* lines 102-118: what the handler renders before it calls the remote service
ResultsShown(r, career_data) ==
    << Elem("success", "Recommended Career", r.top_career),
       Elem("metric", "Avg Salary (LPA)", r.avg_salary),
       Elem("metric", "Role Frequency", r.demand_count),
       Elem("metric", "Salary Range", <<r.min_salary, r.max_salary>>),
       Elem("histogram", "salary_lpa", career_data) >>

Spinner == Elem("spinner", "Generating AI Insight...", <<>>)

WithoutSpinner(d) == SelectSeq(d, LAMBDA e : e.kind # "spinner")

\* exact title equality replaced by the substring test of the scorer
CareerDataBySubstring(df, top_career) ==
    SelectSeq(df, LAMBDA row : StrIn(StrLower(top_career), StrLower(row.job_title)))

\* line 104
CareerData(df, top_career) == FilterByTitle(df, Some(top_career))

\* lines 80-118 for a table with at least one title: the locals after line 110
AnalysisLocals(df, sk, it) ==
    LET user_skills    == ParseList(sk)
        user_interests == ParseList(it)
        career_scores  == CareerScores(df, user_skills, user_interests)
        sorted_careers == SortedCareers(career_scores)
        top_career     == sorted_careers[1].title
        career_data    == CareerData(df, top_career)
    IN  [pc |-> "scored", user_skills |-> user_skills, user_interests |-> user_interests,
         career_scores |-> career_scores, top_career |-> Some(top_career),
         avg_salary |-> RoundStat(SeriesMean(career_data)),
         min_salary |-> RoundStat(SeriesMin(career_data)),
         max_salary |-> RoundStat(SeriesMax(career_data)),
         demand_count |-> ValueCount(df, top_career),
         explanation |-> "", error |-> ""]

\* lines 78-129: the Analyze Now handler up to the call of the remote service
AnalyzeNow(df, sk, it) ==
    LET shown == Header(api_key) \o AnalysisForm(sk, it)
    IN  IF UniqueTitles(df) = <<>>
        THEN \* line 100: sorted_careers[0] of an empty list
             /\ run' = [IdleRun EXCEPT !.pc = "crashed", !.error = "IndexError",
                                       !.user_skills = ParseList(sk),
                                       !.user_interests = ParseList(it)]
             /\ display' = shown \o << Elem("exception", "IndexError", <<>>) >>
             /\ request' = NoRequest
        ELSE LET r == AnalysisLocals(df, sk, it)
                 results == ResultsShown(r, CareerData(df, r.top_career[1]))
             IN  IF ~api_key
                 THEN \* line 128: the name model was never bound
                      /\ run' = [r EXCEPT !.pc = "crashed", !.error = "NameError"]
                      /\ display' = shown \o results
                                          \o << Elem("exception", "NameError", <<>>) >>
                      /\ request' = NoRequest
                 ELSE /\ run' = [r EXCEPT !.pc = "awaiting"]
                      /\ display' = shown \o results \o << Spinner >>
                      /\ request' = [state |-> "pending", skills |-> r.user_skills,
                                     interests |-> r.user_interests,
                                     career |-> r.top_career]

\* lines 160-168
CompareForm(df, c1, c2) ==
    << Elem("header", "Compare Two Careers", <<>>),
       Elem("selectbox", "Select Career 1", c1),
       Elem("selectbox", "Select Career 2", c2),
       Elem("button", "Compare", <<>>) >>

\* lines 170-187
CompareNow(df, c1, c2) ==
    LET data1 == FilterByTitle(df, c1)
        data2 == FilterByTitle(df, c2)
        avg1  == RoundStat(SeriesMean(data1))
        avg2  == RoundStat(SeriesMean(data2))
    IN  << Elem("bar", "Salary Comparison", << <<c1, avg1>>, <<c2, avg2>> >>) >>

\* the Compare handler filtering the table in place
TableFilteredByCompare(df, m, clk, c1) ==
    IF m = "Compare Careers" /\ clk = "Compare" THEN FilterByTitle(df, c1) ELSE df

\* lines 51-198: no page and no handler assigns to salary_df or to its columns
TableAfterRun(df, m, clk, c1) == df

\* st.selectbox without a stored value: the first option, None when there is none
DefaultCareer(df) == IF UniqueTitles(df) = <<>> THEN None ELSE Some(UniqueTitles(df)[1])

(***************************************************************************)
(* One run of the script, triggered by a widget change or a button click.  *)
(* m is the radio's value, clk the clicked button ("" when none), sk, it,  *)
(* c1, c2 the values of the widgets of the page.                           *)
(***************************************************************************)
RunScript(m, clk, sk, it, c1, c2) ==
    LET df == LoadData(csv)
    IN  /\ UNCHANGED <<api_key, csv>>
        /\ salary_df' = TableAfterRun(df, m, clk, c1)
        /\ menu' = m
        /\ clicked' = clk
        /\ skills_input' = IF m = "Career Analysis" THEN sk ELSE <<>>
        /\ interests_input' = IF m = "Career Analysis" THEN it ELSE <<>>
        /\ career1' = IF m = "Compare Careers" THEN c1 ELSE None
        /\ career2' = IF m = "Compare Careers" THEN c2 ELSE None
        /\ UNCHANGED report
        /\ IF m = "Career Analysis" /\ clk = "Analyze Now"
           THEN AnalyzeNow(df, sk, it)
           ELSE /\ run' = IdleRun
                /\ request' = NoRequest
                /\ display' = Header(api_key) \o
                      (IF m = "Career Analysis" THEN AnalysisForm(sk, it)
                       ELSE IF m = "Compare Careers"
                            THEN CompareForm(df, c1, c2) \o
                                 (IF clk = "Compare" THEN CompareNow(df, c1, c2) ELSE <<>>)
                            ELSE << Elem("page", m, <<>>) >>)

(***************************************************************************)
(* User actions and the remote service's answers.                          *)
(***************************************************************************)
\* what the user types into a text area
InputTexts == { <<"b">>, <<" ", "A", ",">> }

\* what the remote service answers
Explanations == { "insight" }

\* the sidebar radio changes: the widgets of the page left lose their values
Navigate(m) ==
    /\ m # menu
    /\ RunScript(m, "", <<>>, <<>>, DefaultCareer(LoadData(csv)), DefaultCareer(LoadData(csv)))

EditSkills(t) ==
    /\ menu = "Career Analysis"
    /\ t # skills_input
    /\ RunScript(menu, "", t, interests_input, None, None)

EditInterests(t) ==
    /\ menu = "Career Analysis"
    /\ t # interests_input
    /\ RunScript(menu, "", skills_input, t, None, None)

SelectCareer1(c) ==
    /\ menu = "Compare Careers"
    /\ \E j \in 1..Len(UniqueTitles(salary_df)) : c = Some(UniqueTitles(salary_df)[j])
    /\ c # career1
    /\ RunScript(menu, "", <<>>, <<>>, c, career2)

SelectCareer2(c) ==
    /\ menu = "Compare Careers"
    /\ \E j \in 1..Len(UniqueTitles(salary_df)) : c = Some(UniqueTitles(salary_df)[j])
    /\ c # career2
    /\ RunScript(menu, "", <<>>, <<>>, career1, c)

PressAnalyze ==
    /\ Shows("button", "Analyze Now")
    /\ RunScript(menu, "Analyze Now", skills_input, interests_input, None, None)

PressCompare ==
    /\ Shows("button", "Compare")
    /\ RunScript(menu, "Compare", <<>>, <<>>, career1, career2)

\* the click re-runs the script; line 136 lies inside the block of line 78
PressDownload ==
    /\ Shows("button", "Download Career Report")
    /\ RunScript(menu, "Download Career Report", skills_input, interests_input, None, None)

\* lines 129-153: generate_content returned
ExplanationReturns(text) ==
    /\ run.pc = "awaiting"
    /\ run' = [run EXCEPT !.pc = "done", !.explanation = text]
    /\ request' = [request EXCEPT !.state = "answered"]
    /\ IF clicked = "Download Career Report"
       THEN /\ report' = BuildReport(run')
            /\ display' = WithoutSpinner(display) \o
                   << Elem("info", "explanation", text),
                      Elem("button", "Download Career Report", <<>>),
                      Elem("download_button", "Download PDF", <<>>) >>
       ELSE /\ report' = report
            /\ display' = WithoutSpinner(display) \o
                   << Elem("info", "explanation", text),
                      Elem("button", "Download Career Report", <<>>) >>
    /\ UNCHANGED <<api_key, csv, salary_df, menu, skills_input, interests_input,
                   career1, career2, clicked>>

\* line 128: generate_content raised (an error of the service, a timeout)
ExplanationFails ==
    /\ run.pc = "awaiting"
    /\ run' = [run EXCEPT !.pc = "crashed", !.error = "ServiceError"]
    /\ request' = [request EXCEPT !.state = "failed"]
    /\ display' = WithoutSpinner(display) \o << Elem("exception", "ServiceError", <<>>) >>
    /\ UNCHANGED <<api_key, csv, salary_df, menu, skills_input, interests_input,
                   career1, career2, clicked, report>>

\* the first run of the script: the radio is on its first option
Init ==
    /\ api_key \in BOOLEAN
    /\ csv \in CsvFiles
    /\ salary_df = LoadData(csv)
    /\ menu = "Home"
    /\ skills_input = <<>>
    /\ interests_input = <<>>
    /\ career1 = None
    /\ career2 = None
    /\ clicked = ""
    /\ display = Header(api_key) \o << Elem("page", "Home", <<>>) >>
    /\ run = IdleRun
    /\ request = NoRequest
    /\ report = NoReport

Next ==
    \/ \E m \in Pages : Navigate(m)
    \/ \E t \in InputTexts \cup { <<>> } : EditSkills(t)
    \/ \E t \in InputTexts \cup { <<>> } : EditInterests(t)
    \/ \E c \in { Some(StrStrip(t)) : t \in RawTitles } : SelectCareer1(c)
    \/ \E c \in { Some(StrStrip(t)) : t \in RawTitles } : SelectCareer2(c)
    \/ PressAnalyze
    \/ PressCompare
    \/ PressDownload
    \/ \E text \in Explanations : ExplanationReturns(text)
    \/ ExplanationFails

Spec == Init /\ [][Next]_vars

(***************************************************************************)
(* The scorer on typed input: the Career Analysis page with any text over  *)
(* Alphabet in the two text areas, and the Analyze Now handler applied.    *)
(***************************************************************************)
Alphabet == { "a", "B", " ", "," }

TwoRowFiles ==
    { << [job_title |-> t1, salary_in_usd |-> 1000], [job_title |-> t2, salary_in_usd |-> 1300] >> :
         t1 \in RawTitles, t2 \in RawTitles }

InitScore ==
    /\ api_key = TRUE
    /\ csv \in TwoRowFiles
    /\ salary_df = LoadData(csv)
    /\ menu = "Career Analysis"
    /\ skills_input \in SeqsUpTo(Alphabet, MaxSkillsText)
    /\ interests_input \in SeqsUpTo(Alphabet, MaxInterestsText)
    /\ career1 = None
    /\ career2 = None
    /\ clicked = ""
    /\ display = Header(api_key) \o AnalysisForm(skills_input, interests_input)
    /\ run = IdleRun
    /\ request = NoRequest
    /\ report = NoReport

NextScore == PressAnalyze

SpecScore == InitScore /\ [][NextScore]_vars

(***************************************************************************)
(* Vocabulary of the properties, stated without the operators above.       *)
(***************************************************************************)
\* p occurs in t as a contiguous run of characters
Occurs(p, t) ==
    \E a \in 0..Len(t) : \E b \in a..Len(t) :
        /\ b - a = Len(p)
        /\ \A k \in 1..Len(p) : t[a + k] = p[k]

Matching(entries, title) ==
    Cardinality({ k \in 1..Len(entries) : Occurs(entries[k], StrLower(title)) })

TitleSet(df) == { df[i].job_title : i \in 1..Len(df) }

\* the Analyze Now handler has scored the titles of a table that has some
Scored == clicked = "Analyze Now" /\ run.error # "IndexError"

MaxOf(S) == CHOOSE x \in S : \A y \in S : y <= x

MinOf(S) == CHOOSE x \in S : \A y \in S : x <= y

RECURSIVE SumOf(_, _)
SumOf(f, S) ==
    IF S = {} THEN 0 ELSE LET i == CHOOSE j \in S : TRUE IN f[i] + SumOf(f, S \ {i})

\* stat is num/den rounded to the nearest hundredth
NearestHundredth(stat, num, den) ==
    LET diff == stat.hundredths * den - 100 * num
    IN  /\ ~stat.isnan
        /\ 2 * diff <= den
        /\ -2 * diff <= den

\* stat is num/den itself
Exactly(stat, num, den) == ~stat.isnan /\ stat.hundredths * den = 100 * num

RowsOfSelection(selected) ==
    IF selected = None THEN {}
    ELSE { i \in 1..Len(salary_df) : salary_df[i].job_title = selected[1] }

RowsOf(title) == { i \in 1..Len(salary_df) : salary_df[i].job_title = title }

LpaNum == [i \in 1..Len(salary_df) |-> salary_df[i].salary_in_usd * 83]

Commas(text) == Cardinality({ k \in 1..Len(text) : text[k] = "," })

Empties(entries) == Cardinality({ k \in 1..Len(entries) : entries[k] = <<>> })

ElemAt(kind, label) == CHOOSE i \in 1..Len(display) : display[i].kind = kind /\ display[i].label = label

(***************************************************************************)
(* C1.  The score stored for each title is the non-negative integer        *)
(* 2 x (entries of the skills list that occur in the lowercased title)     *)
(* + 1 x (entries of the interests list that occur in it), for non-empty   *)
(* lists, and the score table holds exactly one entry per distinct title.  *)
(***************************************************************************)
C1_ScoreIsWeightedMatchCount ==
    (Scored /\ run.user_skills # <<>> /\ run.user_interests # <<>>) =>
        LET cs == run.career_scores
        IN  /\ \A j \in 1..Len(cs) :
                 /\ cs[j].score \in Nat
                 /\ cs[j].score = 2 * Matching(run.user_skills, cs[j].title)
                                  + Matching(run.user_interests, cs[j].title)
            /\ \A t \in TitleSet(salary_df) :
                 Cardinality({ j \in 1..Len(cs) : cs[j].title = t }) = 1
            /\ \A j \in 1..Len(cs) : cs[j].title \in TitleSet(salary_df)

\* a title matched by a skill and an interest inside a word, another by neither
C1_Witness ==
    /\ Scored
    /\ \E j, k \in 1..Len(run.career_scores) :
          /\ run.career_scores[j].score = 3
          /\ run.career_scores[k].score = 0

(***************************************************************************)
(* C2.  The recommended career is the title of maximal score that comes    *)
(* first in the iteration order over the distinct titles; when every score *)
(* is 0 it is the first title, and the recommendation is shown, no error.  *)
(***************************************************************************)
C2_TopIsFirstMaximum ==
    Scored =>
        LET titles == UniqueTitles(salary_df)
            cs == run.career_scores
            score(t) == cs[CHOOSE j \in 1..Len(cs) : cs[j].title = t].score
            best == MaxOf({ score(titles[i]) : i \in 1..Len(titles) })
            first == MinOf({ i \in 1..Len(titles) : score(titles[i]) = best })
        IN  /\ run.top_career = Some(titles[first])
            /\ (best = 0) =>
                  /\ run.top_career = Some(titles[1])
                  /\ Shows("success", "Recommended Career")
                  /\ display[ElemAt("success", "Recommended Career")].data = Some(titles[1])
                  /\ run.error \notin { "IndexError", "KeyError" }

\* two titles, neither matched by anything: the first one is recommended
C2_Witness ==
    /\ Scored
    /\ Len(run.career_scores) = 2
    /\ \A j \in 1..2 : run.career_scores[j].score = 0
    /\ run.top_career = Some(run.career_scores[1].title)

(***************************************************************************)
(* C3.  Aggregation for a title that no record bears fails with an         *)
(* InvalidTitle error and shows no NaN statistic, in the analysis and in   *)
(* the comparison.                                                         *)
(***************************************************************************)
C3_AbsentTitleRaisesInvalidTitle ==
    /\ (clicked = "Compare" /\ (RowsOfSelection(career1) = {} \/ RowsOfSelection(career2) = {})) =>
          /\ Shows("exception", "InvalidTitle")
          /\ ~ShowsKind("bar")
    /\ (Scored /\ RowsOfSelection(run.top_career) = {}) => Shows("exception", "InvalidTitle")

(***************************************************************************)
(* C4.  Without the credential the notice is shown and Analyze Now still   *)
(* completes: recommendation, statistics and chart are shown, no request   *)
(* is made and no exception is raised.                                     *)
(***************************************************************************)
C4_AnalysisCompletesWithoutKey ==
    (~api_key /\ clicked = "Analyze Now" /\ salary_df # <<>>) =>
        /\ Shows("error", "Gemini API Key not configured.")
        /\ Shows("success", "Recommended Career")
        /\ Shows("metric", "Avg Salary (LPA)")
        /\ Shows("histogram", "salary_lpa")
        /\ request.state = "none"
        /\ ~ShowsKind("exception")
        /\ run.pc # "crashed"

(***************************************************************************)
(* C5.  When the explanation request fails, a fallback message is shown in *)
(* place of the explanation, the handler does not abort, and the results   *)
(* already shown stay.                                                     *)
(***************************************************************************)
C5_FailureShowsFallback ==
    (request.state = "failed") =>
        /\ ShowsKind("fallback")
        /\ ~ShowsKind("exception")
        /\ run.pc # "crashed"
        /\ Shows("success", "Recommended Career")
        /\ Shows("metric", "Avg Salary (LPA)")

(***************************************************************************)
(* C6.  The statistics of the top title are taken over exactly the records *)
(* whose title equals it: sample count their number, min and max their     *)
(* smallest and largest salary_lpa, mean their arithmetic mean.            *)
(* C6_StatisticsAreExact states min, max and mean as those values          *)
(* themselves; C6_StatisticsAreRounded as those values rounded to two      *)
(* decimals.                                                               *)
(***************************************************************************)
C6_StatisticsAreExact ==
    Scored =>
        LET rows == RowsOf(run.top_career[1])
            nums == { LpaNum[i] : i \in rows }
        IN  /\ run.demand_count = Cardinality(rows)
            /\ Exactly(run.min_salary, MinOf(nums), Divisor)
            /\ Exactly(run.max_salary, MaxOf(nums), Divisor)
            /\ Exactly(run.avg_salary, SumOf(LpaNum, rows), Divisor * Cardinality(rows))

C6_StatisticsAreRounded ==
    Scored =>
        LET rows == RowsOf(run.top_career[1])
            nums == { LpaNum[i] : i \in rows }
        IN  /\ rows # {}
            /\ run.demand_count = Cardinality(rows)
            /\ NearestHundredth(run.min_salary, MinOf(nums), Divisor)
            /\ NearestHundredth(run.max_salary, MaxOf(nums), Divisor)
            /\ NearestHundredth(run.avg_salary, SumOf(LpaNum, rows),
                                Divisor * Cardinality(rows))

\* two records of the top title with different salaries, a third of another
\* title that contains the top title as a substring
C6_Witness ==
    /\ Scored
    /\ Len(salary_df) = 3
    /\ run.top_career = Some(<<"B">>)
    /\ run.demand_count = 2
    /\ run.min_salary = Num(83)
    /\ run.max_salary = Num(108)
    /\ run.avg_salary = Num(95)

(***************************************************************************)
(* C7.  The entries that splitting on commas leaves empty are kept: the    *)
(* list has one entry per comma plus one, so a blank field yields the      *)
(* list of one empty entry, never the empty list; every empty skills entry *)
(* adds 2 and every empty interests entry adds 1 to every title's score.   *)
(***************************************************************************)
C7_EmptyEntriesAreKept ==
    Scored =>
        /\ Len(run.user_skills) = Commas(skills_input) + 1
        /\ Len(run.user_interests) = Commas(interests_input) + 1
        /\ (\A k \in 1..Len(skills_input) : skills_input[k] = " ") =>
              run.user_skills = << <<>> >>
        /\ \A j \in 1..Len(run.career_scores) :
              /\ run.career_scores[j].score >=
                    2 * Empties(run.user_skills) + Empties(run.user_interests)
              /\ Empties(run.user_skills) > 0 => run.career_scores[j].score >= 2

\* a blank skills field and a comma alone in the interests field
C7_Witness ==
    /\ Scored
    /\ skills_input = <<>>
    /\ interests_input = <<",">>
    /\ run.user_skills = << <<>> >>
    /\ \A j \in 1..Len(run.career_scores) : run.career_scores[j].score = 4

(***************************************************************************)
(* C8.  With the results of a completed analysis shown, pressing Download  *)
(* Career Report renders the report from the title, mean salary, sample    *)
(* count and explanation of that analysis.                                 *)
(***************************************************************************)
C8_DownloadRendersReport ==
    [][(Shows("button", "Download Career Report") /\ clicked' = "Download Career Report")
          => report' = BuildReport(run)]_vars

(***************************************************************************)
(* C9.  While the request to the remote service is outstanding, the        *)
(* recommendation, the statistics and the chart of that analysis are       *)
(* already shown.                                                          *)
(***************************************************************************)
C9_ResultsShownBeforeRequest ==
    (request.state = "pending") =>
        /\ Shows("success", "Recommended Career")
        /\ display[ElemAt("success", "Recommended Career")].data = request.career
        /\ Shows("metric", "Avg Salary (LPA)")
        /\ display[ElemAt("metric", "Avg Salary (LPA)")].data = run.avg_salary
        /\ Shows("metric", "Role Frequency")
        /\ display[ElemAt("metric", "Role Frequency")].data = run.demand_count
        /\ Shows("metric", "Salary Range")
        /\ display[ElemAt("metric", "Salary Range")].data = <<run.min_salary, run.max_salary>>
        /\ Shows("histogram", "salary_lpa")
        /\ ~ShowsKind("info")

C9_Witness ==
    /\ request.state = "pending"
    /\ run.pc = "awaiting"
    /\ Shows("histogram", "salary_lpa")
    /\ Shows("spinner", "Generating AI Insight...")

(***************************************************************************)
(* C10.  No step changes the loaded table: its records, titles and         *)
(* salaries after any action are those before it, so an aggregation        *)
(* repeated for a title gives the same statistics.                         *)
(***************************************************************************)
C10_TableIsNeverModified ==
    [][/\ salary_df' = salary_df
       /\ \A t \in TitleSet(salary_df) :
             /\ RoundStat(SeriesMean(FilterByTitle(salary_df', Some(t)))) =
                RoundStat(SeriesMean(FilterByTitle(salary_df, Some(t))))
             /\ ValueCount(salary_df', t) = ValueCount(salary_df, t)]_vars

\* a comparison of two different titles has run and the table is whole
C10_Witness ==
    /\ clicked = "Compare"
    /\ career1 # career2
    /\ Len(salary_df) >= 2
    /\ Len(salary_df) = Len(csv)

====
